---- MODULE Spec2Model ----
(***************************************************************************)
(* Model of gps-city-radius-extractor.py: the city catalog loader          *)
(* (parse_city_data), the great-circle distance (haversine), the grid      *)
(* generator (create_dense_grid) and the per-city aggregation              *)
(* (process_cities).                                                       *)
(*                                                                         *)
(* Python floats are binary floating-point numbers.  They are modelled as  *)
(* pairs <<m, e>> standing for m * 2^e, with a significand of Prec bits    *)
(* (2^(Prec-1) <= |m| < 2^Prec, or m = 0) and every operation rounded to   *)
(* nearest, ties to even, as IEEE 754 arithmetic does.  The exponent is    *)
(* unbounded (no overflow, no underflow).  Prec is far below the 53 bits   *)
(* of a Python float, so the rounding effects of the code (absorption of   *)
(* a small step by a large coordinate, accumulated error in the loops)     *)
(* show up at everyday magnitudes instead of only at extreme ones.         *)
(***************************************************************************)
EXTENDS Integers, Sequences, FiniteSets, TLC

\* Bits of the significand of a modelled float.
Prec == 13

\* ------------------------------------------------------------------------
\* Floating-point arithmetic
\* ------------------------------------------------------------------------

\* The arithmetic is written as functions: a function is applied to the values
\* of its arguments, so each operand of a nested expression is computed once.

Float == Int \X Int

Pow2(n) == 2 ^ n

Abs(n) == IF n < 0 THEN -n ELSE n

Sgn(n) == IF n < 0 THEN -1 ELSE 1

\* The number of binary digits of n.
BitLen[n \in Nat] == IF n = 0 THEN 0 ELSE 1 + BitLen[n \div 2]

\* The float nearest to n * 2^e, for n # 0 of L binary digits.
NormL[n \in Int, e \in Int, L \in Nat] ==
    IF L <= Prec THEN <<n * Pow2(Prec - L), e - (Prec - L)>>
    ELSE LET sh   == L - Prec
             q    == Abs(n) \div Pow2(sh)
             r    == Abs(n) % Pow2(sh)
             half == Pow2(sh - 1)
         IN  IF r > half \/ (r = half /\ q % 2 = 1)
             THEN IF q + 1 = Pow2(Prec) THEN <<Sgn(n) * Pow2(Prec - 1), e + sh + 1>>
                  ELSE <<Sgn(n) * (q + 1), e + sh>>
             ELSE <<Sgn(n) * q, e + sh>>

\* The float nearest to n * 2^e (round to nearest, ties to even).
Norm[n \in Int, e \in Int] ==
    IF n = 0 THEN <<0, 0>> ELSE NormL[n, e, BitLen[Abs(n)]]

\* An integer literal written with a decimal point in the source (20.0, 111.0).
FromInt(n) == Norm[n, 0]

Zero == <<0, 0>>

One == FromInt(1)

Two == FromInt(2)

FNeg(x) == <<-x[1], x[2]>>

FAbs(x) == <<Abs(x[1]), x[2]>>

\* x + y.  An addend more than Prec + 1 binary places below the other one is
\* absorbed: the sum is the larger operand.
AddF[x \in Float, y \in Float] ==
    IF x[1] = 0 THEN y
    ELSE IF y[1] = 0 THEN x
    ELSE LET big   == IF x[2] >= y[2] THEN x ELSE y
             small == IF x[2] >= y[2] THEN y ELSE x
             d     == big[2] - small[2]
         IN  IF d > Prec + 1 THEN big
             ELSE Norm[big[1] * Pow2(d) + small[1], small[2]]

FAdd(x, y) == AddF[x, y]

FSub(x, y) == AddF[x, FNeg(y)]

MulF[x \in Float, y \in Float] == Norm[x[1] * y[1], x[2] + y[2]]

FMul(x, y) == MulF[x, y]

\* x / y for y # 0; the remainder is kept as a sticky bit so that the quotient
\* is correctly rounded.
DivF[x \in Float, y \in Float] ==
    LET a == Abs(x[1]) * Pow2(Prec + 2)
        b == Abs(y[1])
    IN  Norm[Sgn(x[1]) * Sgn(y[1]) * (2 * (a \div b) + (IF a % b = 0 THEN 0 ELSE 1)),
             x[2] - y[2] - (Prec + 2) - 1]

FDiv(x, y) == DivF[x, y]

\* The float written n/d in decimal (2.4 is Dec(24, 10)).
Dec(n, d) == FDiv(FromInt(n), FromInt(d))

\* The exact difference y - x has the sign of its rounded value.
FLe(x, y) == FSub(y, x)[1] >= 0

FLt(x, y) == FSub(y, x)[1] > 0

\* The largest s in lo..hi with s * s <= n (lo * lo <= n).
ISqrtIter[n \in Nat, lo \in Nat, hi \in Nat] ==
    IF lo = hi THEN lo
    ELSE IF ((lo + hi + 1) \div 2) * ((lo + hi + 1) \div 2) <= n
         THEN ISqrtIter[n, (lo + hi + 1) \div 2, hi]
         ELSE ISqrtIter[n, lo, ((lo + hi + 1) \div 2) - 1]

\* The square root of n * 2^e (e even), given s = floor(sqrt(n)).
SqrtRound[n \in Nat, e \in Int, s \in Nat] ==
    Norm[2 * s + (IF s * s = n THEN 0 ELSE 1), (e \div 2) - 1]

\* math.sqrt(x) for x >= 0, correctly rounded.
SqrtF[x \in Float] ==
    IF x[1] = 0 THEN Zero
    ELSE LET t == IF (x[2] - (Prec + 1)) % 2 = 0 THEN Prec + 1 ELSE Prec + 2
         IN  SqrtRound[x[1] * Pow2(t), x[2] - t,
                       ISqrtIter[x[1] * Pow2(t), Pow2(Prec), Pow2(Prec + 1) - 1]]

FSqrt(x) == SqrtF[x]

\* math.pi, rounded to the model's precision (3.14159265... = 1686629713 / 2^29).
PI == Norm[1686629713, -29]

HalfPI == FDiv(PI, Two)

\* One level of a power series in Horner form: 1 + sign * (x2 * num / den) * inner.
Horner(x2, num, den, inner, sign) ==
    AddF[One, MulF[DivF[MulF[x2, FromInt(sign * num)], FromInt(den)], inner]]

\* sin on [0, pi/2] by its Taylor series, on x and x2 = x * x.
SinSeries[x \in Float, x2 \in Float] ==
    MulF[x, Horner(x2, 1, 6, Horner(x2, 1, 20, Horner(x2, 1, 42,
            Horner(x2, 1, 72, Horner(x2, 1, 110, One, -1), -1), -1), -1), -1)]

\* sin of a >= 0: sin(a) = sin(pi - a) beyond pi/2.
SinAbs[a \in Float] ==
    IF FLe(a, HalfPI) THEN SinSeries[a, MulF[a, a]]
    ELSE SinSeries[FSub(PI, a), MulF[FSub(PI, a), FSub(PI, a)]]

\* math.sin(x) for |x| <= pi: an odd function.
SinF[x \in Float] == IF x[1] < 0 THEN FNeg(SinAbs[FAbs(x)]) ELSE SinAbs[x]

FSin(x) == SinF[x]

\* cos by its Taylor series, on x2 = x * x.
CosSeries[x2 \in Float] ==
    Horner(x2, 1, 2, Horner(x2, 1, 12, Horner(x2, 1, 30, Horner(x2, 1, 56,
           Horner(x2, 1, 90, Horner(x2, 1, 132, One, -1), -1), -1), -1), -1), -1)

\* math.cos(x) for |x| <= pi/2: an even function.
FCos(x) == CosSeries[MulF[x, x]]

\* asin on [0, 1/2] by its Taylor series, on x and x2 = x * x.
AsinSeries[x \in Float, x2 \in Float] ==
    MulF[x, Horner(x2, 1, 6, Horner(x2, 9, 20, Horner(x2, 25, 42,
            Horner(x2, 49, 72, Horner(x2, 81, 110, Horner(x2, 121, 156,
            Horner(x2, 169, 210, One, 1), 1), 1), 1), 1), 1), 1)]

\* asin of the square root of h, for 0 <= h <= 1/4.
AsinOfRoot[h \in Float] == AsinSeries[SqrtF[h], MulF[SqrtF[h], SqrtF[h]]]

\* math.asin(x) for 0 <= x <= 1: asin(x) = pi/2 - 2 asin(sqrt((1 - x) / 2))
\* beyond 1/2.
AsinF[x \in Float] ==
    IF FLe(x, FDiv(One, Two)) THEN AsinSeries[x, MulF[x, x]]
    ELSE FSub(HalfPI, FMul(Two, AsinOfRoot[FDiv(FSub(One, x), Two)]))

FAsin(x) == AsinF[x]

\* math.radians(x): x * (pi / 180).
Radians(x) == MulF[x, FDiv(PI, FromInt(180))]

\* ------------------------------------------------------------------------
\* Constants of the program
\* ------------------------------------------------------------------------

EARTH_RADIUS_KM == FromInt(6371)

CITY_RADIUS_KM == FromInt(20)

GRID_SPACING_KM == FromInt(1)

\* ------------------------------------------------------------------------
\* haversine
\* ------------------------------------------------------------------------

\* math.asin raises ValueError for an argument above 1, and so does haversine.
\* The exception is the pair <<0, 1>>, which is no float (a float of
\* significand 0 has exponent 0).
ValueError == <<0, 1>>

\* The square of x (x**2).
Sq[x \in Float] == MulF[x, x]

\* HavA with the cosine of the first latitude taken twice.
HavA_firstCosine(lat1, lat2, dlat, dlon) ==
    FAdd(Sq[FSin(FDiv(dlat, Two))],
         FMul(FMul(FCos(lat1), FCos(lat1)), Sq[FSin(FDiv(dlon, Two))]))

\* Line 96: a = sin(dlat/2)**2 + cos(lat1) * cos(lat2) * sin(dlon/2)**2, on
\* radians.
HavA(lat1, lat2, dlat, dlon) ==
    FAdd(Sq[FSin(FDiv(dlat, Two))],
         FMul(FMul(FCos(lat1), FCos(lat2)), Sq[FSin(FDiv(dlon, Two))]))

\* Lines 97-98: the distance from sqrt(a); math.asin raises ValueError beyond 1.
HavDistance[root \in Float] ==
    IF FLt(One, root) THEN ValueError
    ELSE FMul(EARTH_RADIUS_KM, FMul(Two, FAsin(root)))

\* Lines 91-96 on the four coordinates in radians.
HavRadians[lat1 \in Float, lon1 \in Float, lat2 \in Float, lon2 \in Float] ==
    HavDistance[FSqrt(HavA(lat1, lat2, FSub(lat2, lat1), FSub(lon2, lon1)))]

haversine(lat1, lon1, lat2, lon2) ==
    HavRadians[Radians(lat1), Radians(lon1), Radians(lat2), Radians(lon2)]

\* ------------------------------------------------------------------------
\* State
\* ------------------------------------------------------------------------

VARIABLES
    \* create_dense_grid: parameters
    lat, lon, radius_km, spacing_km,
    \* create_dense_grid: locals
    lat_step, lon_step, min_lat, max_lat, min_lon, max_lon,
    current_lat, current_lon, grid_points,
    \* create_dense_grid: position ("idle", "outer" = line 128, "inner" = line 130,
    \* "return" = line 139)
    pc,
    \* process_cities: parameters, locals and position ("idle", "for" = line 148,
    \* "grid" = inside the call of line 157, "done" = line 180)
    df, p_spacing_km, idx, all_points, total_points, ppc,
    \* bookkeeping of the calls of create_dense_grid: iterations of the outer loop
    \* and of the current inner loop, and one record per returned call
    rows, cols, calls,
    \* the harness of haversine and parse_city_data: the call made and its result
    hcall, raw, parsed

gridParams == <<lat, lon, radius_km, spacing_km>>

gridBox == <<lat_step, lon_step, min_lat, max_lat, min_lon, max_lon>>

gridVars == <<gridParams, gridBox, current_lat, current_lon, grid_points, pc, rows, cols>>

procVars == <<df, p_spacing_km, idx, all_points, total_points, ppc>>

pureVars == <<hcall, raw, parsed>>

vars == <<gridVars, procVars, calls, pureVars>>

\* ------------------------------------------------------------------------
\* create_dense_grid
\* ------------------------------------------------------------------------

\* Bound on the iterations of one loop (a step absorbed by the loop variable
\* would otherwise repeat the loop for ever).
MaxIter == 64

\* WithinRadius without the filter of line 133: every candidate is kept.
WithinRadius_unfiltered(distance, r) == TRUE

\* Line 133: the point is kept iff it lies within the radius.
WithinRadius(distance, r) == FLe(distance, r)

\* NewList as a list shared by all calls: a call goes on with the list of the
\* call before it.
NewList_shared == grid_points

\* Line 125: the list of a call starts empty.
NewList == <<>>

\* Emit putting the kept point at the front of the list.
Emit_front(points, point) == <<point>> \o points

\* Line 134: a kept point goes to the end of the list.
Emit(points, point) == Append(points, point)

\* ScanStart at the centre instead of the lower edge of the box.
ScanStart_centre(lo, centre) == centre

\* Lines 126 and 129: where the scan of a run of the loop starts.
ScanStart(lo, centre) == lo

\* Lines 136 and 137: the loop variable advanced by one step.
Advance(current, step) == FAdd(current, step)

\* InBox with a strict comparison: the upper edge of the box is left out.
InBox_strict(current, hi) == FLt(current, hi)

\* Lines 128 and 130: the loop goes on while the variable is within the maximum.
InBox(current, hi) == FLe(current, hi)

\* Lines 102-126: the call, up to the first test of the outer loop.
Call(a_lat, a_lon, a_radius_km, a_spacing_km) ==
    LET km_per_degree_lat  == FromInt(111)
        degrees_per_km_lat == FDiv(One, km_per_degree_lat)
        km_per_degree_lon  == FMul(FromInt(111), FCos(Radians(a_lat)))
        degrees_per_km_lon == FDiv(One, km_per_degree_lon)
        lat_radius_in_degrees == FMul(a_radius_km, degrees_per_km_lat)
        lon_radius_in_degrees == FMul(a_radius_km, degrees_per_km_lon)
    IN  /\ pc = "idle"
        /\ lat' = a_lat
        /\ lon' = a_lon
        /\ radius_km' = a_radius_km
        /\ spacing_km' = a_spacing_km
        /\ lat_step' = FMul(degrees_per_km_lat, a_spacing_km)
        /\ lon_step' = FMul(degrees_per_km_lon, a_spacing_km)
        /\ min_lat' = FSub(a_lat, lat_radius_in_degrees)
        /\ max_lat' = FAdd(a_lat, lat_radius_in_degrees)
        /\ min_lon' = FSub(a_lon, lon_radius_in_degrees)
        /\ max_lon' = FAdd(a_lon, lon_radius_in_degrees)
        /\ grid_points' = NewList
        /\ current_lat' = ScanStart(FSub(a_lat, lat_radius_in_degrees), a_lat)
        /\ current_lon' = Zero
        /\ rows' = 0
        /\ cols' = 0
        /\ pc' = "outer"

\* Lines 128-129: the outer test succeeds and a row starts.
OuterEnter ==
    /\ pc = "outer"
    /\ InBox(current_lat, max_lat)
    /\ rows < MaxIter
    /\ current_lon' = ScanStart(min_lon, lon)
    /\ rows' = rows + 1
    /\ cols' = 0
    /\ pc' = "inner"
    /\ UNCHANGED <<gridParams, gridBox, current_lat, grid_points>>
    /\ UNCHANGED <<procVars, calls, pureVars>>

\* Lines 130-136: the inner test succeeds; the candidate is measured, kept or
\* discarded, and the longitude advances.
InnerBody ==
    /\ pc = "inner"
    /\ InBox(current_lon, max_lon)
    /\ cols < MaxIter
    /\ LET distance == haversine(lat, lon, current_lat, current_lon)
       IN  grid_points' = IF WithinRadius(distance, radius_km)
                          THEN Emit(grid_points, <<current_lat, current_lon, distance>>)
                          ELSE grid_points
    /\ current_lon' = Advance(current_lon, lon_step)
    /\ cols' = cols + 1
    /\ UNCHANGED <<gridParams, gridBox, current_lat, rows, pc>>
    /\ UNCHANGED <<procVars, calls, pureVars>>

\* Lines 130 and 137: the inner test fails; the latitude advances.
InnerExit ==
    /\ pc = "inner"
    /\ ~InBox(current_lon, max_lon)
    /\ current_lat' = Advance(current_lat, lat_step)
    /\ pc' = "outer"
    /\ UNCHANGED <<gridParams, gridBox, current_lon, grid_points, rows, cols>>
    /\ UNCHANGED <<procVars, calls, pureVars>>

\* Lines 128 and 139: the outer test fails and the list is returned.
OuterExit ==
    /\ pc = "outer"
    /\ ~InBox(current_lat, max_lat)
    /\ pc' = "return"
    /\ UNCHANGED <<gridParams, gridBox, current_lat, current_lon, grid_points, rows, cols>>
    /\ UNCHANGED <<procVars, calls, pureVars>>

\* The record kept of a returned call.
CallRecord ==
    [lat |-> lat, lon |-> lon, radius_km |-> radius_km, spacing_km |-> spacing_km,
     lat_step |-> lat_step, lon_step |-> lon_step, rows |-> rows,
     grid_points |-> grid_points]

\* ------------------------------------------------------------------------
\* process_cities
\* ------------------------------------------------------------------------

\* Lines 161-171: the output row of one grid point of the city `row`.
OutputRow(row, point) ==
    [city_id |-> row.geonameid, city_name |-> row.name, country |-> row.country_code,
     population |-> row.population, city_lat |-> row.latitude,
     city_lon |-> row.longitude, point_lat |-> point[1], point_lon |-> point[2],
     distance_km |-> point[3]]

\* CityRows leaving out the first point of the grid.
CityRows_skipFirst(row, points) ==
    [k \in 1..(Len(points) - 1) |-> OutputRow(row, points[k + 1])]

\* Lines 160-171: the rows appended for one city, in the order of its grid.
CityRows(row, points) == [k \in 1..Len(points) |-> OutputRow(row, points[k])]

\* Line 157: the radius process_cities hands to create_dense_grid.
CallRadius == CITY_RADIUS_KM

\* Lines 148-157: the next city is taken and its grid is requested.
CityCall ==
    /\ ppc = "for"
    /\ idx <= Len(df)
    /\ Call(df[idx].latitude, df[idx].longitude, CallRadius, p_spacing_km)
    /\ ppc' = "grid"
    /\ UNCHANGED <<df, p_spacing_km, idx, all_points, total_points, calls, pureVars>>

\* Lines 157-173: the grid has returned; its points are appended with the
\* city's metadata.
CityAppend ==
    /\ ppc = "grid"
    /\ pc = "return"
    /\ all_points' = all_points \o CityRows(df[idx], grid_points)
    /\ total_points' = total_points + Len(grid_points)
    /\ calls' = Append(calls, CallRecord)
    /\ idx' = idx + 1
    /\ ppc' = "for"
    /\ pc' = "idle"
    /\ UNCHANGED <<gridParams, gridBox, current_lat, current_lon, grid_points, rows, cols>>
    /\ UNCHANGED <<df, p_spacing_km, pureVars>>

\* Lines 148 and 180: no city is left; the table is returned.
ProcessReturn ==
    /\ ppc = "for"
    /\ idx > Len(df)
    /\ ppc' = "done"
    /\ UNCHANGED <<gridVars, df, p_spacing_km, idx, all_points, total_points, calls, pureVars>>

\* ------------------------------------------------------------------------
\* parse_city_data
\* ------------------------------------------------------------------------

\* A field of the file is its text, a sequence of characters.  A raw row holds
\* the six columns the program consumes; the thirteen others are read and
\* carried along untouched.
DigitChars == <<"0", "1", "2", "3", "4", "5", "6", "7", "8", "9">>

IsDigit(c) == \E d \in 1..10 : DigitChars[d] = c

DigitOf(c) == (CHOOSE d \in 1..10 : DigitChars[d] = c) - 1

\* The number a string of digits writes.
DigitsVal[t \in Seq(STRING)] ==
    IF t = <<>> THEN 0
    ELSE 10 * DigitsVal[SubSeq(t, 1, Len(t) - 1)] + DigitOf(t[Len(t)])

\* The unsigned numeral t: digits with at most one decimal point and at least
\* one digit.  Its value is sign * n / 10^k; k = -1 marks a text that is no
\* number.
Numeral[t \in Seq(STRING), sign \in {-1, 1}] ==
    LET dots   == {i \in 1..Len(t) : t[i] = "."}
        digits == SelectSeq(t, IsDigit)
    IN  IF /\ Cardinality(dots) <= 1
           /\ Len(digits) >= 1
           /\ Len(digits) + Cardinality(dots) = Len(t)
        THEN [n |-> sign * DigitsVal[digits],
              k |-> IF dots = {} THEN 0 ELSE Len(t) - (CHOOSE i \in dots : TRUE)]
        ELSE [n |-> 0, k |-> -1]

\* The number a field writes (an optional sign, then a numeral).
ParseNumber(field) ==
    IF field # <<>> /\ field[1] = "-" THEN Numeral[Tail(field), -1]
    ELSE Numeral[field, 1]

\* A cell of a column is <<v>>, or <<>> when the value is missing (NaN, <NA>).
\* Lines 70-71: pd.to_numeric(field, errors='coerce') of a float column.
ToNumeric(field) ==
    IF ParseNumber(field).k < 0 THEN <<>>
    ELSE <<Dec(ParseNumber(field).n, 10 ^ ParseNumber(field).k)>>

\* Line 74: pd.to_numeric(field, errors='coerce').astype('Int64'), for the
\* whole numbers the population column holds.
ToInt64(field) ==
    IF ParseNumber(field).k < 0 THEN <<>>
    ELSE <<ParseNumber(field).n \div (10 ^ ParseNumber(field).k)>>

\* Lines 67-74: the row read from the file, its three numeric columns coerced.
Coerce(row) ==
    [geonameid |-> row.geonameid, name |-> row.name, country_code |-> row.country_code,
     latitude |-> ToNumeric(row.latitude),
     longitude |-> ToNumeric(row.longitude),
     population |-> ToInt64(row.population)]

\* Line 77: dropna(subset=['latitude', 'longitude', 'population']) keeps a row
\* iff none of the three is missing.
Complete(row) ==
    row.latitude # <<>> /\ row.longitude # <<>> /\ row.population # <<>>

\* A row that is kept holds three numbers.
Values(row) ==
    [geonameid |-> row.geonameid, name |-> row.name, country_code |-> row.country_code,
     latitude |-> row.latitude[1], longitude |-> row.longitude[1],
     population |-> row.population[1]]

\* Lines 67-77: the rows of the file that are kept, in the order of the file.
Kept(file) ==
    LET complete == SelectSeq([i \in 1..Len(file) |-> Coerce(file[i])], Complete)
    IN  [i \in 1..Len(complete) |-> Values(complete[i])]

\* InOrder for an ascending sort.
InOrder_ascending(before, after) == before.population <= after.population

\* Line 80: sort_values('population', ascending=False) puts `before` ahead of
\* `after` only if its population is not smaller.
InOrder(before, after) == before.population >= after.population

\* The orders the sort may return: the default sort is not stable, so rows of
\* equal population may come out in any order.
SortedOrders(tbl) ==
    LET n == Len(tbl)
        perms == {f \in [1..n -> 1..n] : \A i, j \in 1..n : i # j => f[i] # f[j]}
    IN  { [i \in 1..n |-> tbl[f[i]]] :
            f \in {g \in perms : \A i, j \in 1..n :
                                    i < j => InOrder(tbl[g[i]], tbl[g[j]])} }

\* Lines 56-83: the tables parse_city_data may return for the rows of a file.
ParseCityData(file) == SortedOrders(Kept(file))

\* ------------------------------------------------------------------------
\* Inputs and specifications
\* ------------------------------------------------------------------------

\* Whole degrees of the centres tried.
Latitudes == {0, 40, 60, -34}

Longitudes == {0, -75, 25}

\* <<radius_km, spacing_km>> of the direct calls of create_dense_grid: the
\* degenerate radius, spacings that divide the diameter and spacings that do
\* not, and a spacing small enough to be absorbed by a coordinate.
GridConfigs ==
    { <<Zero, FromInt(1)>>, <<Zero, Dec(1, 100)>>,
      <<FromInt(3), FromInt(2)>>, <<FromInt(6), Dec(24, 10)>>,
      <<FromInt(20), FromInt(5)>>, <<FromInt(20), FromInt(10)>>,
      <<FromInt(20), Dec(1, 100)>> }

NoGrid ==
    /\ lat = Zero /\ lon = Zero /\ radius_km = Zero /\ spacing_km = Zero
    /\ lat_step = Zero /\ lon_step = Zero
    /\ min_lat = Zero /\ max_lat = Zero /\ min_lon = Zero /\ max_lon = Zero
    /\ current_lat = Zero /\ current_lon = Zero
    /\ grid_points = <<>>
    /\ rows = 0 /\ cols = 0
    /\ pc = "idle"

NoProcess ==
    /\ df = <<>> /\ p_spacing_km = Zero /\ idx = 0
    /\ all_points = <<>> /\ total_points = 0
    /\ ppc = "idle"

NoPure == hcall = <<>> /\ raw = <<>> /\ parsed = <<>>

\* A direct call of create_dense_grid(lat, lon, radius_km, spacing_km).
GridCall ==
    /\ ppc = "idle"
    /\ \E a \in Latitudes, o \in Longitudes, c \in GridConfigs :
          Call(FromInt(a), FromInt(o), c[1], c[2])
    /\ UNCHANGED <<procVars, calls, pureVars>>

InitGrid == NoGrid /\ NoProcess /\ NoPure /\ calls = <<>>

NextGrid == GridCall \/ OuterEnter \/ InnerBody \/ InnerExit \/ OuterExit

SpecGrid == InitGrid /\ [][NextGrid]_vars

\* The rows of the parsed catalog that process_cities is run on.  Two pairs of
\* cities share their coordinates; two cities share their population.
City(id, name, country, a, o, population) ==
    [geonameid |-> id, name |-> name, country_code |-> country,
     latitude |-> FromInt(a), longitude |-> FromInt(o), population |-> population]

Cities ==
    { City(1, "Quito", "EC", 0, 0, 90000),
      City(2, "Oslo", "NO", 60, 0, 70000),
      City(3, "Trenton", "US", 40, -75, 50000),
      City(4, "Camden", "US", 40, -75, 30000),
      City(5, "Null", "GH", 0, 0, 50000) }

\* Longest catalog tried.
MaxCities == 3

\* A catalog as parse_city_data returns it: distinct rows, population
\* non-increasing.
IsCatalog(c) ==
    /\ \A i, j \in 1..Len(c) : i < j =>
          /\ c[i] # c[j]
          /\ c[i].population >= c[j].population

Catalogs ==
    UNION { {c \in [1..n -> Cities] : IsCatalog(c)} : n \in 0..MaxCities }

\* The spacings process_cities is called with: its default, and coarser ones.
Spacings == {GRID_SPACING_KM, FromInt(5), FromInt(10)}

Init ==
    /\ NoGrid /\ NoPure
    /\ calls = <<>>
    /\ df \in Catalogs
    /\ p_spacing_km \in Spacings
    /\ p_spacing_km = GRID_SPACING_KM => Len(df) <= 1
    /\ idx = 1
    /\ all_points = <<>>
    /\ total_points = 0
    /\ ppc = "for"

Next ==
    \/ CityCall \/ OuterEnter \/ InnerBody \/ InnerExit \/ OuterExit
    \/ CityAppend \/ ProcessReturn

Spec == Init /\ [][Next]_vars

\* The text of a field.
Chars(str) ==
    CASE str = "" -> <<>>
      [] str = "0" -> <<"0">>
      [] str = "40" -> <<"4", "0">>
      [] str = "-75" -> <<"-", "7", "5">>
      [] str = "60.5" -> <<"6", "0", ".", "5">>
      [] str = "25" -> <<"2", "5">>
      [] str = "4o" -> <<"4", "o">>
      [] str = "-" -> <<"-">>
      [] str = "1.2.3" -> <<"1", ".", "2", ".", "3">>
      [] str = "30000" -> <<"3", "0", "0", "0", "0">>
      [] str = "50000" -> <<"5", "0", "0", "0", "0">>
      [] str = "70000" -> <<"7", "0", "0", "0", "0">>

RawRow(id, name, country, a, o, population) ==
    [geonameid |-> id, name |-> name, country_code |-> country,
     latitude |-> Chars(a), longitude |-> Chars(o), population |-> Chars(population)]

\* Rows of the file: complete ones (two of equal population) and rows with a
\* missing or non-numeric latitude, longitude or population.
RawRows ==
    { RawRow(1, "Trenton", "US", "40", "-75", "50000"),
      RawRow(2, "Porvoo", "FI", "60.5", "25", "70000"),
      RawRow(3, "Camden", "US", "40", "-75", "30000"),
      RawRow(4, "Quito", "EC", "0", "0", "50000"),
      RawRow(5, "Nolat", "XX", "", "25", "70000"),
      RawRow(6, "Badlon", "XX", "40", "4o", "30000"),
      RawRow(7, "Nopop", "XX", "0", "0", ""),
      RawRow(8, "Dash", "XX", "-", "1.2.3", "50000") }

\* Most rows of a file tried.
MaxRows == 3

RawFiles ==
    UNION { {f \in [1..n -> RawRows] : \A i, j \in 1..n : i # j => f[i] # f[j]} :
              n \in 0..MaxRows }

\* parse_city_data(city_file) is called and returns.
Parse ==
    /\ parsed = <<>>
    /\ \E table \in ParseCityData(raw) : parsed' = <<table>>
    /\ UNCHANGED <<gridVars, procVars, calls, hcall, raw>>

InitParse ==
    /\ NoGrid /\ NoProcess
    /\ calls = <<>>
    /\ hcall = <<>>
    /\ raw \in RawFiles
    /\ parsed = <<>>

NextParse == Parse

SpecParse == InitParse /\ [][NextParse]_vars

\* Coordinates of the haversine calls tried, in tenths of a degree.
HavLatitudes == {-340, 0, 405, 600, 850}

HavLongitudes == {-750, 0, 251, 1510}

HavPoints == {<<Dec(a, 10), Dec(o, 10)>> : a \in HavLatitudes, o \in HavLongitudes}

\* The record kept of a call of haversine.
HavRecord(lat1, lon1, lat2, lon2) ==
    [lat1 |-> lat1, lon1 |-> lon1, lat2 |-> lat2, lon2 |-> lon2,
     distance |-> haversine(lat1, lon1, lat2, lon2)]

\* haversine(A, B) is called.
HavCall ==
    /\ hcall = <<>>
    /\ \E A \in HavPoints, B \in HavPoints :
          hcall' = <<HavRecord(A[1], A[2], B[1], B[2])>>
    /\ UNCHANGED <<gridVars, procVars, calls, raw, parsed>>

\* haversine(B, A) is called after haversine(A, B).
HavSwap ==
    /\ Len(hcall) = 1
    /\ hcall' = Append(hcall, HavRecord(hcall[1].lat2, hcall[1].lon2,
                                        hcall[1].lat1, hcall[1].lon1))
    /\ UNCHANGED <<gridVars, procVars, calls, raw, parsed>>

InitHav == NoGrid /\ NoProcess /\ NoPure /\ calls = <<>>

NextHav == HavCall \/ HavSwap

SpecHav == InitHav /\ [][NextHav]_vars

\* ------------------------------------------------------------------------
\* Properties of create_dense_grid (checked under SpecGrid)
\* ------------------------------------------------------------------------

PointLat(point) == point[1]

PointLon(point) == point[2]

PointDistance(point) == point[3]

\* The distance of the k-th point is the haversine distance from the centre.
DistanceIsHaversine(k) ==
    PointDistance(grid_points[k]) =
        haversine(lat, lon, PointLat(grid_points[k]), PointLon(grid_points[k]))

\* C1 (containment): at every moment of a call, no tuple of grid_points has a
\* distance above radius_km; the distance of the tuple appended last, and of
\* every tuple of a returned list, is haversine(lat, lon, point_lat, point_lon).
C1_Containment ==
    /\ \A k \in 1..Len(grid_points) : FLe(PointDistance(grid_points[k]), radius_km)
    /\ grid_points # <<>> => DistanceIsHaversine(Len(grid_points))
    /\ pc = "return" => \A k \in 1..Len(grid_points) : DistanceIsHaversine(k)

\* A call with a positive radius has returned several points, the corner of
\* the box, which lies outside the radius, not among them.
C1_Witness ==
    /\ pc = "return"
    /\ radius_km # Zero
    /\ Len(grid_points) >= 2
    /\ \A k \in 1..Len(grid_points) :
          <<PointLat(grid_points[k]), PointLon(grid_points[k])>> # <<min_lat, min_lon>>
    /\ ~FLe(haversine(lat, lon, min_lat, min_lon), radius_km)

ScansBefore(p, q) ==
    \/ FLt(PointLat(p), PointLat(q))
    \/ PointLat(p) = PointLat(q) /\ FLt(PointLon(p), PointLon(q))

\* C3 (scan order): in the list a call returns, each point comes strictly
\* before the next one in latitude-major, longitude-minor ascending order, and
\* no (lat, lon) pair appears twice.
C3_ScanOrder ==
    pc = "return" =>
        /\ \A k \in 1..(Len(grid_points) - 1) :
              ScansBefore(grid_points[k], grid_points[k + 1])
        /\ \A j, k \in 1..Len(grid_points) :
              j # k => <<PointLat(grid_points[j]), PointLon(grid_points[j])>> #
                       <<PointLat(grid_points[k]), PointLon(grid_points[k])>>

\* A returned list holds two points of one row, a step to the next row, and a
\* later point that is nearer to the centre than an earlier one.
C3_Witness ==
    /\ pc = "return"
    /\ \E k \in 1..(Len(grid_points) - 1) :
          PointLat(grid_points[k]) = PointLat(grid_points[k + 1])
    /\ \E k \in 1..(Len(grid_points) - 1) :
          PointLat(grid_points[k]) # PointLat(grid_points[k + 1])
    /\ \E k \in 1..(Len(grid_points) - 1) :
          FLt(PointDistance(grid_points[k + 1]), PointDistance(grid_points[k]))

\* C6 (box superset): every point of grid_points lies in the box
\* [min_lat, max_lat] x [min_lon, max_lon], and the first candidate scanned is
\* (min_lat, min_lon).
C6_BoxSuperset ==
    /\ \A k \in 1..Len(grid_points) :
          /\ FLe(min_lat, PointLat(grid_points[k]))
          /\ FLe(PointLat(grid_points[k]), max_lat)
          /\ FLe(min_lon, PointLon(grid_points[k]))
          /\ FLe(PointLon(grid_points[k]), max_lon)
    /\ (pc = "inner" /\ rows = 1 /\ cols = 0) =>
          (current_lat = min_lat /\ current_lon = min_lon)

\* The first candidate of a call with a box that is no single point is about
\* to be measured.
C6_WitnessFirst ==
    /\ pc = "inner"
    /\ rows = 1
    /\ cols = 0
    /\ FLt(min_lat, max_lat)
    /\ FLt(min_lon, max_lon)

\* The largest whole number not above x / y, for floats x >= 0 and y > 0.
FloorDiv(x, y) ==
    IF x[1] = 0 THEN 0
    ELSE IF x[2] >= y[2] THEN (x[1] * Pow2(x[2] - y[2])) \div y[1]
    ELSE x[1] \div (y[1] * Pow2(y[2] - x[2]))

\* floor(2 * radius_km / spacing_km) + 1
IterationBound == FloorDiv(FMul(Two, radius_km), spacing_km) + 1

\* C10 (termination of the scan): a call examines at most
\* floor(2 * radius_km / spacing_km) + 1 latitude rows and, in each row, at
\* most as many longitude columns.
C10_IterationBound ==
    pc # "idle" => (rows <= IterationBound /\ cols <= IterationBound)

\* C10 (termination of the scan): each loop variable strictly increases on
\* every iteration.
C10_StrictIncrease ==
    [][/\ (pc = "inner" /\ pc' = "inner") => FLt(current_lon, current_lon')
       /\ (pc = "inner" /\ pc' = "outer") => FLt(current_lat, current_lat')]_vars

\* ------------------------------------------------------------------------
\* Properties of process_cities (checked under Spec)
\* ------------------------------------------------------------------------

\* The number of output rows of the cities before the i-th one.
RowsBefore[i \in Nat] ==
    IF i <= 1 THEN 0 ELSE RowsBefore[i - 1] + Len(calls[i - 1].grid_points)

\* C4 (aggregation): when process_cities is done, create_dense_grid has been
\* called once per city, in catalog order, with the city's coordinates and a
\* radius of 20 km; the output holds one row per (city, grid point), the
\* cities in catalog order and the points of a city in the order the grid
\* returned them, each row with the id, name, country, population and
\* coordinates of its city; the row count is the sum of the grid sizes.
C4_Aggregation ==
    ppc = "done" =>
        /\ Len(calls) = Len(df)
        /\ Len(all_points) = RowsBefore[Len(df) + 1]
        /\ total_points = Len(all_points)
        /\ \A i \in 1..Len(df) :
              /\ calls[i].lat = df[i].latitude
              /\ calls[i].lon = df[i].longitude
              /\ calls[i].radius_km = FromInt(20)
              /\ \A k \in 1..Len(calls[i].grid_points) :
                    all_points[RowsBefore[i] + k] =
                        [city_id |-> df[i].geonameid, city_name |-> df[i].name,
                         country |-> df[i].country_code,
                         population |-> df[i].population,
                         city_lat |-> df[i].latitude, city_lon |-> df[i].longitude,
                         point_lat |-> calls[i].grid_points[k][1],
                         point_lon |-> calls[i].grid_points[k][2],
                         distance_km |-> calls[i].grid_points[k][3]]

\* A catalog of three cities is done, each city with several rows.
C4_Witness ==
    /\ ppc = "done"
    /\ Len(df) = 3
    /\ \A i \in 1..3 : Len(calls[i].grid_points) >= 2
    /\ Len(all_points) = RowsBefore[4]

\* The grid points in the rows of the city with the given id, in output order.
PointsOf(id) ==
    LET mine == SelectSeq(all_points, LAMBDA r : r.city_id = id)
    IN  [k \in 1..Len(mine) |->
            <<mine[k].point_lat, mine[k].point_lon, mine[k].distance_km>>]

\* C5 (independence): when process_cities is done, two cities of the catalog
\* with the same latitude and longitude have the same sequence of
\* (point_lat, point_lon, distance_km) in their rows, wherever they stand in
\* the catalog.
C5_Independence ==
    ppc = "done" =>
        \A i, j \in 1..Len(df) :
            (df[i].latitude = df[j].latitude /\ df[i].longitude = df[j].longitude)
                => PointsOf(df[i].geonameid) = PointsOf(df[j].geonameid)

\* Two cities with the same coordinates, a city elsewhere processed between
\* them, have their rows in a finished output.
C5_Witness ==
    /\ ppc = "done"
    /\ Len(df) = 3
    /\ df[1].latitude = df[3].latitude
    /\ df[1].longitude = df[3].longitude
    /\ df[2].latitude # df[1].latitude
    /\ PointsOf(df[1].geonameid) # <<>>
    /\ PointsOf(df[2].geonameid) # PointsOf(df[1].geonameid)

\* y is within one percent of twice x.
AboutTwice(x, y) ==
    FLe(FAbs(FSub(y, FMul(Two, x))), FDiv(x, FromInt(100)))

\* C9 (latitude dependence): of two returned calls with the same radius and
\* spacing, one centred at latitude 0 and one at latitude 60, the longitude
\* step of the second is about twice that of the first, the latitude steps
\* are equal and as many latitude rows were scanned.
C9_LatitudeDependence ==
    \A i, j \in 1..Len(calls) :
        (/\ calls[i].lat = FromInt(0)
         /\ calls[j].lat = FromInt(60)
         /\ calls[i].radius_km = calls[j].radius_km
         /\ calls[i].spacing_km = calls[j].spacing_km)
            => /\ AboutTwice(calls[i].lon_step, calls[j].lon_step)
               /\ calls[i].lat_step = calls[j].lat_step
               /\ calls[i].rows = calls[j].rows

\* ------------------------------------------------------------------------
\* Properties of parse_city_data (checked under SpecParse)
\* ------------------------------------------------------------------------

\* The latitude, longitude and population of a raw row are present and numeric.
AllNumeric(row) ==
    /\ ParseNumber(row.latitude).k >= 0
    /\ ParseNumber(row.longitude).k >= 0
    /\ ParseNumber(row.population).k >= 0

\* The row of the table that the raw row gives.
RowOf(row) ==
    [geonameid |-> row.geonameid, name |-> row.name, country_code |-> row.country_code,
     latitude |-> ToNumeric(row.latitude)[1], longitude |-> ToNumeric(row.longitude)[1],
     population |-> ToInt64(row.population)[1]]

\* C7 (catalog loader): the table parse_city_data returns holds exactly the
\* rows of the file whose latitude, longitude and population are all present
\* and numeric, each once, and its populations are non-increasing.
C7_CatalogLoader ==
    parsed # <<>> =>
        LET table == parsed[1]
            good  == {i \in 1..Len(raw) : AllNumeric(raw[i])}
        IN  /\ Len(table) = Cardinality(good)
            /\ \A i \in good : \E k \in 1..Len(table) : table[k] = RowOf(raw[i])
            /\ \A k \in 1..Len(table) : \E i \in good : table[k] = RowOf(raw[i])
            /\ \A j, k \in 1..Len(table) :
                  j < k => table[j].population >= table[k].population

\* A file with a row to drop and rows of different populations, given in
\* ascending order, has been parsed.
C7_Witness ==
    /\ parsed # <<>>
    /\ Len(raw) = 3
    /\ Len(parsed[1]) = 2
    /\ parsed[1][1].population > parsed[1][2].population
    /\ \E i, j \in 1..3 :
          /\ i < j
          /\ RowOf(raw[j]) = parsed[1][1]
          /\ RowOf(raw[i]) = parsed[1][2]

\* ------------------------------------------------------------------------
\* Properties of haversine (checked under SpecHav)
\* ------------------------------------------------------------------------

\* C8 (distance symmetry): haversine(B, A) returns what haversine(A, B)
\* returned.
C8_DistanceSymmetry ==
    Len(hcall) = 2 => hcall[2].distance = hcall[1].distance

\* Both calls were made on two points of different latitude and longitude,
\* and returned a distance.
C8_Witness ==
    /\ Len(hcall) = 2
    /\ hcall[1].lat1 # hcall[1].lat2
    /\ hcall[1].lon1 # hcall[1].lon2
    /\ hcall[2].lat1 = hcall[1].lat2
    /\ hcall[2].lon1 = hcall[1].lon2
    /\ hcall[1].distance # ValueError
    /\ FLt(Zero, hcall[1].distance)

====
